---- MODULE Spec2Model ----
(***************************************************************************)
(* A model of alfred's review-lifecycle and cost-accounting subsystem:     *)
(* the review history store (review_history.py), the cost ledger           *)
(* (cost_tracker.py), the balance estimator (api_balance_tracker.py),      *)
(* credential resolution (config.py), the review commands (cli.py,         *)
(* agent.py), the device-flow poll of the GitHub login (github_auth.py)    *)
(* and two invocations appending to one store file side by side.           *)
(*                                                                         *)
(* Conventions                                                             *)
(*  - Money is counted in micro-dollars (1 dollar = 1000000), so that the  *)
(*    per-million-token prices are exact integers: a token priced at       *)
(*    3.00 dollars per million costs 3 micro-dollars.                      *)
(*  - Python's None is the integer None (-1) wherever the code keeps an    *)
(*    Optional number; an Optional dict is a sequence of length 0 or 1.    *)
(*  - A path is the sequence of its components; a text is a sequence of    *)
(*    tokens (see the score extraction section).                           *)
(*  - datetime.now() is the logical clock `now`, advanced by every         *)
(*    operation that reads it.                                             *)
(***************************************************************************)
EXTENDS Integers, Sequences, FiniteSets, TLC

VARIABLES
    history,       \* content of review_history.json: sequence of ReviewRecord
    cost_exists,   \* whether cost_history.json exists
    cost_history,  \* content of cost_history.json: sequence of UsageRecord
    balance_file,  \* content of api_balance.json: <<>> when absent, else <<snapshot>>
    now,           \* logical clock standing for datetime.now()
    ret,           \* the last operation, its arguments and what it returned
    priced,        \* history variable: every UsageRecord priced so far, in order
    spent,         \* history variable: cost priced since the last save_balance
    steps,         \* number of operations performed
    history_kind,  \* what review_history.json holds: see FileKinds
    cost_kind,     \* what cost_history.json holds: see FileKinds
    config_key,    \* the api_key stored in config.json (NoKey when there is none)
    token_file,    \* content of github_token.json: <<>> when absent, else <<token data>>
    poll,          \* GitHubAuth.poll_for_token: position, clock, interval, last reply
    inv,           \* the CLI invocations running side by side: position, loaded list
    overlapped     \* history variable: two invocations were between load and write at once

vars == <<history, cost_exists, cost_history, balance_file, now, ret, priced, spent, steps,
          history_kind, cost_kind, config_key, token_file, poll, inv, overlapped>>

historyVars == <<history, history_kind>>
flowVars    == <<token_file, poll>>
raceVars    == <<inv, overlapped>>
procVars    == <<flowVars, raceVars>>
ledgerVars  == <<cost_exists, cost_history, priced, spent, cost_kind>>
balanceVars == <<balance_file>>
configVars  == <<config_key>>

----------------------------------------------------------------------------
(* Bounds *)

\* operations per behaviour
MaxOps == 3

\* tokens in an enumerated review text
MaxTextLen == 5

\* review commands per behaviour
MaxRuns == 1

None == -1

\* an absent key: None, or the empty string, which Python also takes as false
NoKey == ""

\* What a store's JSON file can hold (when it does not hold a list, the
\* variable for its content is <<>> and is not read):
\*   "list"    a list of records, the content variable;
\*   "invalid" text that is not JSON: json.load raises JSONDecodeError;
\*   "object"  a JSON object with a member, such as {"a": 1}: json.load
\*             returns a dict.
FileKinds == {"list", "invalid", "object"}

\* variant: the load always yields the empty list
LoadList_nothing(kind, content) == <<>>

\* the value _load_history returns when it returns a list: the list in the
\* file, or [] from the except clause when the content is not JSON
LoadList(kind, content) == IF kind = "list" THEN content ELSE <<>>

\* _load_history returns the dict of an "object" file as it is.  Every
\* operation of the stores modelled with a file kind then raises:
\* history.append (AttributeError), history[-limit:], and r['score'],
\* r['filename'], review['review'], r["total_tokens"] on the keys that
\* iterating a dict yields (TypeError).
NotAList(kind) == kind = "object"

Min(a, b) == IF a <= b THEN a ELSE b
Max(a, b) == IF a >= b THEN a ELSE b

\* history[-n:] for n >= 1: the last n elements (all of them when n >= len)
LastN(s, n) == IF Len(s) <= n THEN s ELSE SubSeq(s, Len(s) - n + 1, Len(s))

----------------------------------------------------------------------------
(* Score extraction: ReviewHistory._extract_score                          *)
(*                                                                         *)
(* A text is a sequence of tokens.  A token is one of the literals of the  *)
(* patterns ("Overall " with its trailing blank, "Score:", "Rating:",      *)
(* "/10"), written in some case, or a single character: a blank, a digit   *)
(* or another character ("x").                                             *)

Digits == {"0", "1", "2", "3", "4", "5", "6", "7", "8", "9"}

Whitespace == {" "}

DigitVal(d) ==
    CASE d = "0" -> 0 [] d = "1" -> 1 [] d = "2" -> 2 [] d = "3" -> 3
      [] d = "4" -> 4 [] d = "5" -> 5 [] d = "6" -> 6 [] d = "7" -> 7
      [] d = "8" -> 8 [] d = "9" -> 9

\* str.lower() on a token (re.IGNORECASE compares case-folded characters)
Lower(t) ==
    CASE t = "Overall " -> "overall "
      [] t = "OVERALL " -> "overall "
      [] t = "Score:"   -> "score:"
      [] t = "SCORE:"   -> "score:"
      [] t = "Rating:"  -> "rating:"
      [] t = "RATING:"  -> "rating:"
      [] t = "X"        -> "x"
      [] t = "SQL"      -> "sql"
      [] t = "A.PY"     -> "a.py"
      [] t = "Security" -> "security"
      [] OTHER          -> t

\* variant: the bare N/10 pattern is tried first
patterns_bare_first == <<
    [lit |-> <<>>, spaces |-> FALSE],
    [lit |-> <<"Overall ", "Score:">>, spaces |-> TRUE],
    [lit |-> <<"Score:">>, spaces |-> TRUE],
    [lit |-> <<"Rating:">>, spaces |-> TRUE] >>

\* the four patterns, in the order of the list.  Each is a literal prefix
\* lit, then \s* when spaces is TRUE, then (\d+)/10.
patterns == <<
    [lit |-> <<"Overall ", "Score:">>, spaces |-> TRUE],
    [lit |-> <<"Score:">>, spaces |-> TRUE],
    [lit |-> <<"Rating:">>, spaces |-> TRUE],
    [lit |-> <<>>, spaces |-> FALSE] >>

\* int(match.group(1)): the decimal value of the digit tokens text[i..j]
RECURSIVE IntOf(_, _, _)
IntOf(text, i, j) ==
    IF j < i THEN 0 ELSE 10 * IntOf(text, i, j - 1) + DigitVal(text[j])

\* the first position >= i whose token is not in class (Len(text)+1 if none)
RECURSIVE SkipClass(_, _, _)
SkipClass(text, i, class) ==
    IF i <= Len(text) /\ text[i] \in class
    THEN SkipClass(text, i + 1, class)
    ELSE i

\* does the literal lit match the text at position i, ignoring case
LiteralAt(text, i, lit) ==
    /\ i + Len(lit) - 1 <= Len(text)
    /\ \A k \in 1..Len(lit) : Lower(text[i + k - 1]) = Lower(lit[k])

\* the pattern matched at position i: group 1 as an integer, or None
MatchAt(text, i, pattern) ==
    IF ~LiteralAt(text, i, pattern.lit) THEN None
    ELSE LET d == IF pattern.spaces
                  THEN SkipClass(text, i + Len(pattern.lit), Whitespace)
                  ELSE i + Len(pattern.lit)
             e == SkipClass(text, d, Digits)
         IN IF e > d /\ e <= Len(text) /\ text[e] = "/10"
            THEN IntOf(text, d, e - 1)
            ELSE None

\* re.search: the match at the leftmost position where the pattern matches
RECURSIVE Search(_, _, _)
Search(text, i, pattern) ==
    IF i > Len(text) THEN None
    ELSE LET match == MatchAt(text, i, pattern)
         IN IF match # None THEN match ELSE Search(text, i + 1, pattern)

\* the loop over the patterns, from pattern number p on
RECURSIVE ExtractFrom(_, _)
ExtractFrom(text, p) ==
    IF p > Len(patterns) THEN None
    ELSE LET match == Search(text, 1, patterns[p])
         IN IF match # None THEN match ELSE ExtractFrom(text, p + 1)

_extract_score(review_text) == ExtractFrom(review_text, 1)

----------------------------------------------------------------------------
(* Review history store: ReviewHistory                                     *)

max_reviews == 100

\* Path(filepath).name
PathName(filepath) == filepath[Len(filepath)]

\* the dict built by save_review
review_data(review_id, filepath, review_text, focus, score, cost, ts) ==
    [ id        |-> review_id,
      filepath  |-> filepath,
      filename  |-> PathName(filepath),
      review    |-> review_text,
      focus     |-> focus,
      score     |-> IF score = None THEN _extract_score(review_text) ELSE score,
      cost      |-> cost,
      timestamp |-> ts ]

\* variant: the cap keeps the first max_reviews records (history[:max_reviews])
save_review_keeps_oldest(h, filepath, review_text, focus, score, cost, ts) ==
    LET review_id == Len(h) + 1
        appended == Append(h, review_data(review_id, filepath, review_text,
                                          focus, score, cost, ts))
    IN IF Len(appended) > max_reviews THEN SubSeq(appended, 1, max_reviews) ELSE appended

\* variant: the new id is one more than the id of the newest stored record
save_review_after_newest(h, filepath, review_text, focus, score, cost, ts) ==
    LET review_id == IF h = <<>> THEN 1 ELSE h[Len(h)].id + 1
        appended == Append(h, review_data(review_id, filepath, review_text,
                                          focus, score, cost, ts))
    IN IF Len(appended) > max_reviews THEN LastN(appended, max_reviews) ELSE appended

\* variant: the records kept after the cap are renumbered 1, 2, ...
save_review_renumbers(h, filepath, review_text, focus, score, cost, ts) ==
    LET appended == Append(h, review_data(Len(h) + 1, filepath, review_text,
                                          focus, score, cost, ts))
        kept == IF Len(appended) > max_reviews
                THEN LastN(appended, max_reviews) ELSE appended
    IN [i \in 1..Len(kept) |-> [kept[i] EXCEPT !.id = i]]

\* the list save_review writes back: append, then keep the last max_reviews
save_review(h, filepath, review_text, focus, score, cost, ts) ==
    LET review_id == Len(h) + 1
        appended == Append(h, review_data(review_id, filepath, review_text,
                                          focus, score, cost, ts))
    IN IF Len(appended) > max_reviews THEN LastN(appended, max_reviews) ELSE appended

\* the index at which the loop "for review in history" first finds the id
\* (0 when it runs to the end)
FirstWithId(h, review_id) ==
    LET found == {i \in 1..Len(h) : h[i].id = review_id}
    IN IF found = {} THEN 0
       ELSE CHOOSE i \in found : \A j \in found : i <= j

\* get_review: <<>> for None, else <<dict>>
get_review(h, review_id) ==
    LET i == FirstWithId(h, review_id)
    IN IF i = 0 THEN <<>> ELSE <<h[i]>>

\* history.pop(i)
Pop(h, i) == SubSeq(h, 1, i - 1) \o SubSeq(h, i + 1, Len(h))

\* a delete_review that drops the found record and everything stored after it
delete_review_drops_tail(h, review_id) ==
    LET i == FirstWithId(h, review_id)
    IN IF i = 0 THEN h ELSE SubSeq(h, 1, i - 1)

\* the list delete_review leaves in the file
delete_review(h, review_id) ==
    LET i == FirstWithId(h, review_id)
    IN IF i = 0 THEN h ELSE Pop(h, i)

\* s[::-1]
Reverse(s) == [i \in 1..Len(s) |-> s[Len(s) + 1 - i]]

\* s[-n:] as Python slices it: -0 is 0, so s[-0:] is the whole list; a
\* start before the beginning is clamped to the beginning; for n < 0 the
\* start is the index -n
SliceFromEnd(s, n) ==
    IF n = 0 THEN s
    ELSE IF n > 0 THEN LastN(s, n)
    ELSE SubSeq(s, Min(-n, Len(s)) + 1, Len(s))

\* get_recent: history[-limit:][::-1]
get_recent(h, limit) == Reverse(SliceFromEnd(h, limit))

\* str.lower() on a text
LowerText(text) == [i \in 1..Len(text) |-> Lower(text[i])]

\* Python's "needle in hay" on texts
Contains(hay, needle) ==
    \E i \in 0..(Len(hay) - Len(needle)) :
        SubSeq(hay, i + 1, i + Len(needle)) = needle

\* variant: the query and the fields are compared as they are written
search_case_sensitive(h, query) ==
    LET match(r) == \/ Contains(r.review, query)
                    \/ Contains(<<r.filename>>, query)
                    \/ Contains(<<r.focus>>, query)
    IN Reverse(SelectSeq(h, match))

\* search: the records in which the lowered query occurs in the lowered
\* review text, filename or focus, reversed.  A filename and a focus are
\* texts of one token.
search(h, query) ==
    LET query_lower == LowerText(query)
        match(r) == \/ Contains(LowerText(r.review), query_lower)
                    \/ Contains(LowerText(<<r.filename>>), query_lower)
                    \/ Contains(LowerText(<<r.focus>>), query_lower)
    IN Reverse(SelectSeq(h, match))

\* variant: only the stored full path is compared
get_by_file_path_only(h, filepath) ==
    LET match(r) == r.filepath = filepath
    IN Reverse(SelectSeq(h, match))

\* get_by_file: the records whose filename is the last component of the
\* argument, or whose filepath is the argument, reversed
get_by_file(h, filepath) ==
    LET filename == PathName(filepath)
        match(r) == r.filename = filename \/ r.filepath = filepath
    IN Reverse(SelectSeq(h, match))

\* Python truthiness of an Optional number: None and 0 are false
Truthy(x) == x # None /\ x # 0

\* sum(s[lo..hi]), halving the range
RECURSIVE SumSeq(_, _, _)
SumSeq(s, lo, hi) ==
    IF lo > hi THEN 0
    ELSE IF lo = hi THEN s[lo]
    ELSE LET mid == (lo + hi) \div 2
         IN SumSeq(s, lo, mid) + SumSeq(s, mid + 1, hi)

\* variant: a focus is recorded as seen, not counted
_get_focus_breakdown_flags(h) ==
    [f \in {h[i].focus : i \in 1..Len(h)} |-> 1]

\* _get_focus_breakdown: the dict focus -> number of records with that focus
_get_focus_breakdown(h) ==
    [f \in {h[i].focus : i \in 1..Len(h)} |->
        Cardinality({i \in 1..Len(h) : h[i].focus = f})]

\* get_stats.  avg_score is the quotient num / den.
get_stats(h) ==
    IF h = <<>>
    THEN [total_reviews |-> 0, avg_score |-> [num |-> 0, den |-> 1],
          total_cost |-> 0, files_reviewed |-> 0]
    ELSE LET hasScore(r) == Truthy(r.score)
             hasCost(r) == Truthy(r.cost)
             scored == SelectSeq(h, hasScore)
             costed == SelectSeq(h, hasCost)
             scores == [i \in 1..Len(scored) |-> scored[i].score]
             costs == [i \in 1..Len(costed) |-> costed[i].cost]
             files == {h[i].filename : i \in 1..Len(h)}
         IN [total_reviews |-> Len(h),
             avg_score |-> IF scores # <<>>
                           THEN [num |-> SumSeq(scores, 1, Len(scores)),
                                 den |-> Len(scores)]
                           ELSE [num |-> 0, den |-> 1],
             total_cost |-> IF costs # <<>> THEN SumSeq(costs, 1, Len(costs)) ELSE 0,
             files_reviewed |-> Cardinality(files),
             focus_breakdown |-> _get_focus_breakdown(h)]

----------------------------------------------------------------------------
(* Cost ledger: CostTracker                                                *)

\* dollars per million tokens, i.e. micro-dollars per token
INPUT_COST_PER_M == 3

OUTPUT_COST_PER_M == 15

\* the "Keep only last 1000 reviews" cap of _save_to_history
LedgerCap == 1000

\* CostTracker._load_history
_load_history(exists, ledger) == IF exists THEN ledger ELSE <<>>

\* the cost figures track_review computes from usage
input_cost(input_tokens) == input_tokens * INPUT_COST_PER_M

\* variant: output tokens priced at the input rate
output_cost_input_rate(output_tokens) == output_tokens * INPUT_COST_PER_M

output_cost(output_tokens) == output_tokens * OUTPUT_COST_PER_M

total_cost(input_tokens, output_tokens) ==
    input_cost(input_tokens) + output_cost(output_tokens)

\* the record track_review hands to _save_to_history
usage_data(input_tokens, output_tokens, filepath, ts) ==
    [ timestamp     |-> ts,
      filepath      |-> filepath,
      input_tokens  |-> input_tokens,
      output_tokens |-> output_tokens,
      total_tokens  |-> input_tokens + output_tokens,
      cost          |-> total_cost(input_tokens, output_tokens) ]

\* the dict track_review returns
track_review(input_tokens, output_tokens) ==
    [ input_tokens  |-> input_tokens,
      output_tokens |-> output_tokens,
      total_tokens  |-> input_tokens + output_tokens,
      cost          |-> total_cost(input_tokens, output_tokens),
      input_cost    |-> input_cost(input_tokens),
      output_cost   |-> output_cost(output_tokens) ]

\* variant: the cap keeps the first 1000 records (history[:1000])
_save_to_history_keeps_oldest(exists, ledger, data) ==
    LET appended == Append(_load_history(exists, ledger), data)
    IN IF Len(appended) > LedgerCap THEN SubSeq(appended, 1, LedgerCap) ELSE appended

\* the list _save_to_history writes back: append, then keep the last 1000
_save_to_history(exists, ledger, data) ==
    LET appended == Append(_load_history(exists, ledger), data)
    IN IF Len(appended) > LedgerCap THEN LastN(appended, LedgerCap) ELSE appended

\* sum(r["cost"] for r in history[lo..hi]); the range is halved instead of
\* folded left to right, which gives the same integer
RECURSIVE SumCost(_, _, _)
SumCost(ledger, lo, hi) ==
    IF lo > hi THEN 0
    ELSE IF lo = hi THEN ledger[lo].cost
    ELSE LET mid == (lo + hi) \div 2
         IN SumCost(ledger, lo, mid) + SumCost(ledger, mid + 1, hi)

\* sum(r["total_tokens"] for r in history[lo..hi])
RECURSIVE SumTokens(_, _, _)
SumTokens(ledger, lo, hi) ==
    IF lo > hi THEN 0
    ELSE IF lo = hi THEN ledger[lo].total_tokens
    ELSE LET mid == (lo + hi) \div 2
         IN SumTokens(ledger, lo, mid) + SumTokens(ledger, mid + 1, hi)

\* get_total_usage.  The two averages (quotients of the totals below, shown
\* to the user only) are left out.
get_total_usage(exists, ledger) ==
    IF ~exists
    THEN [ total_reviews |-> 0, total_tokens |-> 0, total_cost |-> 0 ]
    ELSE LET h == _load_history(exists, ledger)
         IN [ total_reviews |-> Len(h),
              total_tokens  |-> SumTokens(h, 1, Len(h)),
              total_cost    |-> SumCost(h, 1, Len(h)) ]

----------------------------------------------------------------------------
(* Balance estimator: APIBalanceTracker                                    *)

\* the thresholds of get_usage_status, 1 and 5 dollars
LowBelow == 1000000

WarningBelow == 5000000

\* variant: the low threshold compared with <= instead of <
get_usage_status_le(user_balance, exists, ledger) ==
    LET total_usage == get_total_usage(exists, ledger)
    IN IF user_balance = None
       THEN [ has_balance |-> FALSE,
              total_cost  |-> total_usage.total_cost,
              message     |-> "used" ]
       ELSE LET remaining == user_balance
                status == IF remaining <= LowBelow THEN "low"
                          ELSE IF remaining < WarningBelow THEN "warning"
                          ELSE "ok"
            IN [ has_balance |-> TRUE,
                 status      |-> status,
                 balance     |-> remaining,
                 total_cost  |-> total_usage.total_cost,
                 message     |-> status,
                 should_warn |-> status \in {"low", "warning"} ]

\* get_usage_status(user_balance); None stands for user_balance=None.
\* The figures that are only shown to the user (month_cost,
\* avg_cost_per_review, estimated_reviews_left) and the wording of message
\* are left out: message is the tag of the branch that builds it.
get_usage_status(user_balance, exists, ledger) ==
    LET total_usage == get_total_usage(exists, ledger)
    IN IF user_balance = None
       THEN [ has_balance |-> FALSE,
              total_cost  |-> total_usage.total_cost,
              message     |-> "used" ]
       ELSE LET remaining == user_balance
                status == IF remaining < LowBelow THEN "low"
                          ELSE IF remaining < WarningBelow THEN "warning"
                          ELSE "ok"
            IN [ has_balance |-> TRUE,
                 status      |-> status,
                 balance     |-> remaining,
                 total_cost  |-> total_usage.total_cost,
                 message     |-> status,
                 should_warn |-> status \in {"low", "warning"} ]

\* variant: the snapshot does not record the ledger total
save_balance_no_baseline(balance, exists, ledger, ts) ==
    [ balance              |-> balance,
      last_updated         |-> ts,
      total_cost_at_update |-> 0 ]

\* the dict save_balance writes to api_balance.json
save_balance(balance, exists, ledger, ts) ==
    [ balance              |-> balance,
      last_updated         |-> ts,
      total_cost_at_update |-> get_total_usage(exists, ledger).total_cost ]

\* variant: a missing file is read as a snapshot of zero
load_balance_zero_default(bfile, exists, ledger) ==
    IF bfile = <<>>
    THEN << [ balance |-> 0, last_updated |-> 0,
              spent_since_update |-> 0, is_estimate |-> FALSE ] >>
    ELSE LET data == bfile[1]
             spent_since_save ==
                 get_total_usage(exists, ledger).total_cost - data.total_cost_at_update
         IN << [ balance            |-> Max(0, data.balance - spent_since_save),
                 last_updated       |-> data.last_updated,
                 spent_since_update |-> spent_since_save,
                 is_estimate        |-> spent_since_save > 0 ] >>

\* load_balance: <<>> for None, else <<dict>>
load_balance(bfile, exists, ledger) ==
    IF bfile = <<>> THEN <<>>
    ELSE LET data == bfile[1]
             saved_balance == data.balance
             saved_total_cost == data.total_cost_at_update
             current_total_cost == get_total_usage(exists, ledger).total_cost
             spent_since_save == current_total_cost - saved_total_cost
             estimated_balance == saved_balance - spent_since_save
         IN << [ balance            |-> Max(0, estimated_balance),
                 last_updated       |-> data.last_updated,
                 spent_since_update |-> spent_since_save,
                 is_estimate        |-> spent_since_save > 0 ] >>

\* get_detailed_status
get_detailed_status(bfile, exists, ledger) ==
    LET balance_data == load_balance(bfile, exists, ledger)
    IN IF balance_data # <<>>
       THEN get_usage_status(balance_data[1].balance, exists, ledger)
       ELSE get_usage_status(None, exists, ledger)

\* variant: the balance compared with <= instead of <
check_before_review_le(estimated_cost, bfile, exists, ledger) ==
    LET status == get_detailed_status(bfile, exists, ledger)
    IN IF ~status.has_balance
       THEN [proceed |-> TRUE, warning |-> "None"]
       ELSE IF status.balance <= estimated_cost
       THEN [proceed |-> FALSE, warning |-> "insufficient"]
       ELSE IF status.status \in {"low", "warning"}
       THEN [proceed |-> TRUE, warning |-> "advisory"]
       ELSE [proceed |-> TRUE, warning |-> "None"]

\* variant: a low or warning status stops the review as a short balance does
check_before_review_advisory_stops(estimated_cost, bfile, exists, ledger) ==
    LET status == get_detailed_status(bfile, exists, ledger)
    IN IF ~status.has_balance
       THEN [proceed |-> TRUE, warning |-> "None"]
       ELSE IF status.balance < estimated_cost \/ status.status \in {"low", "warning"}
       THEN [proceed |-> FALSE, warning |-> "insufficient"]
       ELSE [proceed |-> TRUE, warning |-> "None"]

\* check_before_review: the pair (should_proceed, warning_message), the
\* message being "None" or the tag of the text that is built
check_before_review(estimated_cost, bfile, exists, ledger) ==
    LET status == get_detailed_status(bfile, exists, ledger)
    IN IF ~status.has_balance
       THEN [proceed |-> TRUE, warning |-> "None"]
       ELSE IF status.balance < estimated_cost
       THEN [proceed |-> FALSE, warning |-> "insufficient"]
       ELSE IF status.status \in {"low", "warning"}
       THEN [proceed |-> TRUE, warning |-> "advisory"]
       ELSE [proceed |-> TRUE, warning |-> "None"]

----------------------------------------------------------------------------
(* Credentials and the review agent: Config, CodeReviewAgent               *)

\* Config.get_api_key: cli_key, else the key in config.json, else the
\* environment variable ANTHROPIC_API_KEY, else None
get_api_key(cli_key, cfg, env) ==
    IF cli_key # NoKey THEN cli_key
    ELSE IF cfg # NoKey THEN cfg
    ELSE IF env # NoKey THEN env
    ELSE NoKey

\* the api_key parameter of the review commands, declared as
\* typer.Option(None, "--api-key", "-k", envvar="ANTHROPIC_API_KEY"): the
\* flag when it is given, else the environment variable, else None
api_key_option(flag, env) == IF flag # NoKey THEN flag ELSE env

valid_focuses == {"general", "security", "performance", "style", "bugs"}

\* focus_instructions.get(focus, focus_instructions["general"]) in the
\* three prompt builders: the focus whose instruction goes into the prompt
focus_instruction(focus) == IF focus \in valid_focuses THEN focus ELSE "general"

\* what an agent method returns once the backend has answered: the text,
\* and the pricing when track_cost is set (tracked is the UsageRecord that
\* track_review appends to the ledger, cost_info the dict it returns)
Answered(focus, track_cost, backend, label, ts) ==
    [ raised      |-> FALSE,
      called      |-> TRUE,
      instruction |-> focus_instruction(focus),
      review_text |-> backend.text,
      tracked     |-> IF track_cost
                      THEN <<usage_data(backend.input_tokens, backend.output_tokens,
                                        label, ts)>>
                      ELSE <<>>,
      cost_info   |-> IF track_cost
                      THEN <<track_review(backend.input_tokens, backend.output_tokens)>>
                      ELSE <<>> ]

\* CodeReviewAgent.review_code: read_file raises for a missing path or a
\* directory, messages.create raises when the backend call fails
review_code(file, focus, track_cost, backend, ts) ==
    IF ~file.exists \/ ~file.is_file
    THEN [raised |-> TRUE, called |-> FALSE]
    ELSE IF ~backend.ok
    THEN [raised |-> TRUE, called |-> TRUE]
    ELSE Answered(focus, track_cost, backend, file.path, ts)

\* CodeReviewAgent.review_git_diff(diff, focus, track_cost): the steps
\* common to the three variants, on a git diff
review_git_diff(focus, track_cost, backend, ts) ==
    IF ~backend.ok
    THEN [raised |-> TRUE, called |-> TRUE]
    ELSE Answered(focus, track_cost, backend, <<"git-diff">>, ts)

\* CodeReviewAgent.review_pr_diff(pr_info, diff, focus, track_cost): the
\* steps common to the three variants, on the diff of a pull request
review_pr_diff(focus, track_cost, backend, ts) ==
    IF ~backend.ok
    THEN [raised |-> TRUE, called |-> TRUE]
    ELSE Answered(focus, track_cost, backend, <<"pr-diff">>, ts)

\* no --since reference
NoRef == ""

\* the description get_git_diff returns, as the sequence of its words
git_description(staged, since) ==
    IF since # NoRef THEN <<"changes", "since", since>>
    ELSE IF staged THEN <<"staged", "changes">>
    ELSE <<"unstaged", "changes">>

\* f"git-{description.replace(' ', '-')}": a path of one component, the
\* component being the sequence of the words that the hyphens join
git_identifier(description) == << <<"git">> \o description >>

----------------------------------------------------------------------------
(* Inputs *)

\* the arguments of the save_review calls
ReviewInputs ==
    { [ filepath |-> <<"a.py">>, review_text |-> <<"x">>,
        focus |-> "general", score |-> None, cost |-> None ],
      [ filepath |-> <<"src", "a.py">>,
        review_text |-> <<"Score:", " ", "4", "/10", "x", "9", "/10">>,
        focus |-> "security", score |-> None, cost |-> 4500 ],
      [ filepath |-> <<"b.py">>, review_text |-> <<"SQL", " ", "injection">>,
        focus |-> "security", score |-> 7, cost |-> 0 ],
      [ filepath |-> <<"b.py">>, review_text |-> <<"Overall ", "Score:", " ", "0", "/10">>,
        focus |-> "bugs", score |-> None, cost |-> 3000 ] }

\* the review ids asked of delete_review
IdChoices == {1, 2, max_reviews, max_reviews + 1}

\* token counts reported by the backend
InputTokenChoices == {0, 1000}

OutputTokenChoices == {0, 100}

\* balances the user reports, in micro-dollars
BalanceChoices == {0, 100000, 500000, 1000000, 5000000}

\* estimated costs passed to check_before_review, in micro-dollars
CostChoices == {0, 150000}

\* the limits asked of get_recent (10 is the default)
LimitChoices == {0, 1, 2, 10, max_reviews, max_reviews + 1}

\* the queries asked of search
QueryChoices ==
    { <<>>, <<"sql">>, <<"sql", " ", "injection">>, <<"Security">>, <<"A.PY">>,
      <<"injection", "sql">> }

\* the paths asked of get_by_file
PathChoices == { <<"a.py">>, <<"src", "a.py">>, <<"lib", "a.py">>, <<"b.py">>, <<"c.py">> }

\* the path arguments of the file review
FileArgs ==
    { [path |-> <<"a.py">>, exists |-> TRUE, is_file |-> TRUE],
      [path |-> <<"src">>, exists |-> TRUE, is_file |-> FALSE],
      [path |-> <<"gone.py">>, exists |-> FALSE, is_file |-> FALSE] }

\* --focus values: a valid one and one outside the list
FocusChoices == {"security", "bogus"}

\* --api-key values, contents of ANTHROPIC_API_KEY, keys in config.json,
\* keys typed into interactive_setup
FlagChoices == {NoKey, "sk-ant-cli"}

EnvChoices == {NoKey, "sk-ant-env"}

\* the --api-key flag and ANTHROPIC_API_KEY of a review command
KeyArgs ==
    { [flag |-> NoKey, env |-> NoKey],
      [flag |-> NoKey, env |-> "sk-ant-env"],
      [flag |-> "sk-ant-cli", env |-> "sk-ant-env"] }

ConfigChoices == {NoKey, "sk-ant-cfg"}

SetupChoices == {NoKey, "sk-ant-new"}

\* --staged/--unstaged and --since of review-git
GitModes ==
    { [staged |-> TRUE, since |-> NoRef],
      [staged |-> FALSE, since |-> NoRef],
      [staged |-> TRUE, since |-> "HEAD~1"] }

\* what the backend call does: it fails, or it answers with a text and
\* token counts
BackendOutcomes ==
    { [ok |-> FALSE],
      [ok |-> TRUE, input_tokens |-> 1000, output_tokens |-> 100,
       text |-> <<"Score:", " ", "4", "/10">>] }

\* what git diff does: it fails, prints nothing, or prints a diff
GitOutcomes == {"fail", "empty", "diff"}

\* the pull request argument: a URL, a number, something else
PrRefs == {"url", "number", "other"}

\* balances in the snapshot file when a review command starts
SnapshotChoices == {100000, 500000, 2000000}

\* review texts as the backend returns them, saved without a score: one with
\* no score line, one scoring 9 out of 10, one scoring 49 out of 10
ScoredTexts ==
    { <<"x">>, <<"Score:", " ", "9", "/10">>, <<"Score:", " ", "4", "9", "/10">> }

ScoredInputs ==
    { [filepath |-> <<"a.py">>, review_text |-> t, focus |-> "general",
       score |-> None, cost |-> None] : t \in ScoredTexts }

\* the tokens of the enumerated review texts
Alphabet == {"Overall ", "Score:", "RATING:", " ", "4", "9", "/10"}

TextsUpTo(n) == UNION { [1..k -> Alphabet] : k \in 0..n }

----------------------------------------------------------------------------
(* GitHub login: GitHubAuth.poll_for_token                                 *)

\* "timeout = time.time() + 900": seconds from the call to the deadline
PollTimeout == 900

\* the interval poll_for_token is called with, in seconds
IntervalChoices == {5}

\* the seconds one token request takes
Latencies == {0, 5}

\* what the reply to a token request carries: an access token, one of the
\* device-flow errors, or another error
Replies ==
    { "access_token", "authorization_pending", "slow_down", "expired_token",
      "access_denied", "other" }

\* no login in progress
NoPoll == [pc |-> "idle"]

\* the token data _save_token writes
token_data(ts) == [access_token |-> "gho", created_at |-> ts]

\* poll_for_token just called: about to test "time.time() < timeout".
\* clock counts the seconds since the call.
PollCalled(interval) ==
    [pc |-> "while", clock |-> 0, interval |-> interval, posted_at |-> None,
     reply |-> "none", result |-> "none"]

----------------------------------------------------------------------------
(* Initial states: the files as earlier invocations left them              *)

\* the history file after n <= max_reviews save_review calls on an empty
\* store, the i-th one made at time i
HistoryAfter(n) ==
    [i \in 1..n |-> review_data(i, <<"a.py">>, <<"x">>, "general", None, None, i)]

\* the ledger file after n <= LedgerCap track_review calls on an empty
\* ledger, the i-th one made at time i
LedgerAfter(n) ==
    [i \in 1..n |-> usage_data(1000, 100, <<"a.py">>, i)]

\* no login and no side-by-side invocations in progress
Idle ==
    /\ token_file = <<>>
    /\ poll = NoPoll
    /\ inv = <<>>
    /\ overlapped = FALSE

InitHistorySizes == {0, max_reviews - 1, max_reviews}

InitLedgerSizes == {0, LedgerCap - 1}

InitWith(hsizes, lsizes) ==
    /\ Idle
    /\ history_kind = "list"
    /\ cost_kind = "list"
    /\ config_key = NoKey
    /\ \E n \in hsizes : history = HistoryAfter(n)
    /\ \E n \in lsizes :
          /\ cost_exists = (n > 0)
          /\ cost_history = LedgerAfter(n)
    /\ priced = cost_history
    /\ balance_file = <<>>
    /\ spent = 0
    /\ now = Len(history) + Len(cost_history) + 1
    /\ ret = [op |-> "init"]
    /\ steps = 0

Init == InitWith(InitHistorySizes, InitLedgerSizes)

InitHistory == InitWith(InitHistorySizes, {0})

InitBalance == InitWith({0}, InitLedgerSizes)

InitScore == InitWith({0}, {0})

InitQuery == InitWith({0, max_reviews - 1}, {0})

\* with or without a key in config.json: empty stores with or without a
\* balance snapshot, or the stores after one earlier review
InitPipeline ==
    /\ Idle
    /\ history_kind = "list"
    /\ cost_kind = "list"
    /\ config_key \in ConfigChoices
    /\ \/ /\ history = <<>>
          /\ cost_exists = FALSE
          /\ cost_history = <<>>
          /\ \/ balance_file = <<>>
             \/ \E b \in SnapshotChoices :
                   balance_file = <<save_balance(b, FALSE, <<>>, 0)>>
       \/ /\ history = HistoryAfter(1)
          /\ cost_exists = TRUE
          /\ cost_history = LedgerAfter(1)
          /\ balance_file = <<>>
    /\ priced = cost_history
    /\ spent = 0
    /\ now = 3
    /\ ret = [op |-> "init"]
    /\ steps = 0

\* "alfred login" has started the device flow and calls poll_for_token
InitPoll ==
    /\ history_kind = "list"
    /\ cost_kind = "list"
    /\ config_key = NoKey
    /\ history = <<>>
    /\ cost_exists = FALSE
    /\ cost_history = <<>>
    /\ priced = <<>>
    /\ balance_file = <<>>
    /\ spent = 0
    /\ now = 1
    /\ ret = [op |-> "init"]
    /\ steps = 0
    /\ token_file = <<>>
    /\ \E interval \in IntervalChoices : poll = PollCalled(interval)
    /\ inv = <<>>
    /\ overlapped = FALSE

\* two CLI invocations started side by side, both about to append to the
\* history store or both to the ledger
Procs == {1, 2}

Invocation(store) == [pc |-> "start", store |-> store, loaded |-> <<>>, data |-> <<>>]

InitRace ==
    /\ history_kind = "list"
    /\ cost_kind = "list"
    /\ config_key = NoKey
    /\ \E n \in InitHistorySizes : history = HistoryAfter(n)
    /\ \E n \in InitLedgerSizes :
          /\ cost_exists = (n > 0)
          /\ cost_history = LedgerAfter(n)
    /\ priced = cost_history
    /\ balance_file = <<>>
    /\ spent = 0
    /\ now = LedgerCap + 1
    /\ ret = [op |-> "init"]
    /\ steps = 0
    /\ token_file = <<>>
    /\ poll = NoPoll
    /\ \E store \in {"history", "ledger"} : inv = [p \in Procs |-> Invocation(store)]
    /\ overlapped = FALSE

\* the store files as something other than alfred may have left them
InitCorrupt ==
    /\ Idle
    /\ history_kind \in FileKinds
    /\ cost_kind \in FileKinds
    /\ history = IF history_kind = "list" THEN HistoryAfter(1) ELSE <<>>
    /\ cost_exists = TRUE
    /\ cost_history = IF cost_kind = "list" THEN LedgerAfter(1) ELSE <<>>
    /\ priced = cost_history
    /\ balance_file = <<>>
    /\ spent = 0
    /\ config_key = NoKey
    /\ now = 3
    /\ ret = [op |-> "init"]
    /\ steps = 0

----------------------------------------------------------------------------
(* Operations *)

\* ReviewHistory.save_review
SaveReviewFrom(inputs) ==
    /\ steps < MaxOps
    /\ \E inp \in inputs :
          IF NotAList(history_kind)
          THEN /\ ret' = [op |-> "save_review", args |-> inp, found |-> history_kind,
                          raised |-> TRUE]
               /\ UNCHANGED historyVars
          ELSE LET h == LoadList(history_kind, history)
                   data == review_data(Len(h) + 1, inp.filepath, inp.review_text,
                                       inp.focus, inp.score, inp.cost, now)
               IN /\ history' = save_review(h, inp.filepath, inp.review_text,
                                            inp.focus, inp.score, inp.cost, now)
                  /\ history_kind' = "list"
                  /\ ret' = [op |-> "save_review", args |-> inp, found |-> history_kind,
                             raised |-> FALSE, saved |-> data, val |-> data.id]
    /\ now' = now + 1
    /\ steps' = steps + 1
    /\ UNCHANGED <<procVars, configVars, ledgerVars, balanceVars>>

\* ReviewHistory.save_review with the arguments of ReviewInputs
SaveReview == SaveReviewFrom(ReviewInputs)

\* ReviewHistory.save_review called without a score, as the review commands
\* call it: the score is taken from the text
SaveScored == SaveReviewFrom(ScoredInputs)

\* ReviewHistory.delete_review, on a file that holds a list
DeleteReview ==
    /\ steps < MaxOps
    /\ history_kind = "list"
    /\ \E review_id \in IdChoices :
          /\ history' = delete_review(history, review_id)
          /\ UNCHANGED history_kind
          /\ ret' = [op |-> "delete_review", review_id |-> review_id,
                     val |-> (FirstWithId(history, review_id) # 0)]
    /\ steps' = steps + 1
    /\ UNCHANGED <<procVars, configVars, now, ledgerVars, balanceVars>>

\* ReviewHistory.clear_all, on a file that holds a list
ClearAll ==
    /\ steps < MaxOps
    /\ history_kind = "list"
    /\ history' = <<>>
    /\ UNCHANGED history_kind
    /\ ret' = [op |-> "clear_all", val |-> Len(history)]
    /\ steps' = steps + 1
    /\ UNCHANGED <<procVars, configVars, now, ledgerVars, balanceVars>>

\* ReviewHistory.get_recent (a query: it is not counted in steps)
GetRecent ==
    /\ \E limit \in LimitChoices :
          ret' = IF NotAList(history_kind)
                 THEN [op |-> "get_recent", limit |-> limit, found |-> history_kind,
                       raised |-> TRUE]
                 ELSE [op |-> "get_recent", limit |-> limit, found |-> history_kind,
                       raised |-> FALSE,
                       val |-> get_recent(LoadList(history_kind, history), limit)]
    /\ UNCHANGED <<procVars, configVars, now, steps, historyVars, ledgerVars, balanceVars>>

\* ReviewHistory.search
SearchReviews ==
    /\ \E query \in QueryChoices :
          ret' = IF NotAList(history_kind)
                 THEN [op |-> "search", query |-> query, found |-> history_kind,
                       raised |-> TRUE]
                 ELSE [op |-> "search", query |-> query, found |-> history_kind,
                       raised |-> FALSE,
                       val |-> search(LoadList(history_kind, history), query)]
    /\ UNCHANGED <<procVars, configVars, now, steps, historyVars, ledgerVars, balanceVars>>

\* ReviewHistory.get_by_file
GetByFile ==
    /\ \E filepath \in PathChoices :
          ret' = IF NotAList(history_kind)
                 THEN [op |-> "get_by_file", filepath |-> filepath,
                       found |-> history_kind, raised |-> TRUE]
                 ELSE [op |-> "get_by_file", filepath |-> filepath,
                       found |-> history_kind, raised |-> FALSE,
                       val |-> get_by_file(LoadList(history_kind, history), filepath)]
    /\ UNCHANGED <<procVars, configVars, now, steps, historyVars, ledgerVars, balanceVars>>

\* ReviewHistory.get_stats
GetStats ==
    /\ ret' = IF NotAList(history_kind)
               THEN [op |-> "get_stats", found |-> history_kind, raised |-> TRUE]
               ELSE [op |-> "get_stats", found |-> history_kind, raised |-> FALSE,
                     val |-> get_stats(LoadList(history_kind, history))]
    /\ UNCHANGED <<procVars, configVars, now, steps, historyVars, ledgerVars, balanceVars>>

\* CostTracker.track_review
TrackReview ==
    /\ steps < MaxOps
    /\ \E input_tokens \in InputTokenChoices, output_tokens \in OutputTokenChoices :
          LET data == usage_data(input_tokens, output_tokens, <<"a.py">>, now)
          IN IF NotAList(cost_kind)
             THEN /\ ret' = [op |-> "track_review", input_tokens |-> input_tokens,
                             output_tokens |-> output_tokens, found |-> cost_kind,
                             raised |-> TRUE]
                  /\ UNCHANGED ledgerVars
             ELSE /\ cost_history' = _save_to_history(cost_exists,
                                          LoadList(cost_kind, cost_history), data)
                  /\ cost_kind' = "list"
                  /\ cost_exists' = TRUE
                  /\ priced' = Append(priced, data)
                  /\ spent' = spent + data.cost
                  /\ ret' = [op |-> "track_review", input_tokens |-> input_tokens,
                             output_tokens |-> output_tokens, found |-> cost_kind,
                             raised |-> FALSE, saved |-> data,
                             val |-> track_review(input_tokens, output_tokens)]
    /\ now' = now + 1
    /\ steps' = steps + 1
    /\ UNCHANGED <<procVars, configVars, historyVars, balanceVars>>

\* CostTracker.get_total_usage (a query: it is not counted in steps)
GetTotalUsage ==
    /\ ret' = IF NotAList(cost_kind)
               THEN [op |-> "get_total_usage", found |-> cost_kind, raised |-> TRUE]
               ELSE [op |-> "get_total_usage", found |-> cost_kind, raised |-> FALSE,
                     val |-> get_total_usage(cost_exists,
                                             LoadList(cost_kind, cost_history))]
    /\ UNCHANGED <<procVars, configVars, now, steps, historyVars, ledgerVars, balanceVars>>

\* APIBalanceTracker.save_balance, on a ledger file that holds a list
SaveBalance ==
    /\ steps < MaxOps
    /\ cost_kind = "list"
    /\ \E balance \in BalanceChoices :
          /\ balance_file' = <<save_balance(balance, cost_exists, cost_history, now)>>
          /\ ret' = [op |-> "save_balance", balance |-> balance]
    /\ spent' = 0
    /\ now' = now + 1
    /\ steps' = steps + 1
    /\ UNCHANGED <<procVars, configVars, historyVars, cost_exists, cost_history, priced, cost_kind>>

\* APIBalanceTracker.check_before_review, on a ledger file that holds a list
CheckBeforeReview ==
    /\ steps < MaxOps
    /\ cost_kind = "list"
    /\ \E estimated_cost \in CostChoices :
          ret' = [op |-> "check_before_review", estimated_cost |-> estimated_cost,
                  val |-> check_before_review(estimated_cost, balance_file,
                                              cost_exists, cost_history)]
    /\ steps' = steps + 1
    /\ UNCHANGED <<procVars, configVars, now, historyVars, ledgerVars, balanceVars>>

\* APIBalanceTracker.get_detailed_status, on a ledger file that holds a list
GetDetailedStatus ==
    /\ steps < MaxOps
    /\ cost_kind = "list"
    /\ ret' = [op |-> "get_detailed_status",
               val |-> get_detailed_status(balance_file, cost_exists, cost_history)]
    /\ steps' = steps + 1
    /\ UNCHANGED <<procVars, configVars, now, historyVars, ledgerVars, balanceVars>>

\* ReviewHistory._extract_score applied to an enumerated text
ExtractScore ==
    /\ ret.op = "init"
    /\ \E review_text \in TextsUpTo(MaxTextLen) :
          ret' = [op |-> "_extract_score", review_text |-> review_text,
                  val |-> _extract_score(review_text)]
    /\ steps' = steps + 1
    /\ UNCHANGED <<procVars, configVars, now, historyVars, ledgerVars, balanceVars>>

\* Config.get_api_key called with an explicit value (a query)
GetApiKey ==
    /\ \E cli_key \in FlagChoices, env \in EnvChoices :
          ret' = [op |-> "get_api_key", cli_key |-> cli_key, env |-> env,
                  val |-> get_api_key(cli_key, config_key, env)]
    /\ UNCHANGED <<procVars, configVars, now, steps, historyVars, ledgerVars, balanceVars>>

\* A review command ends before anything is written to the stores.  ret
\* keeps the exit status, what ended the command, the key the backend
\* client was or would have been built with, and the trace: the sequence of
\* "backend" (the backend was invoked), "ledger" (a UsageRecord was
\* appended), "history" (a ReviewRecord was appended), "comment" (the
\* review was posted to the pull request).
Abort(op, args, code, cause, key, trace) ==
    /\ ret' = [op |-> op, args |-> args, exit |-> code, cause |-> cause,
               key |-> key, trace |-> trace]
    /\ UNCHANGED <<now, historyVars, ledgerVars>>

\* cost_tracker.track_review inside the agent method, when track_cost is set
Priced(r) ==
    IF r.tracked # <<>>
    THEN /\ cost_history' = _save_to_history(cost_exists, cost_history, r.tracked[1])
         /\ cost_exists' = TRUE
         /\ priced' = Append(priced, r.tracked[1])
         /\ spent' = spent + r.tracked[1].cost
         /\ UNCHANGED cost_kind
    ELSE UNCHANGED ledgerVars

\* the end of review and review_git once the agent method has returned r:
\* history_tracker.save_review(filepath=identifier, review_text, focus,
\* cost=cost_info['cost'] if cost_info else None), then exit status 0
Saved(op, args, key, r, identifier, focus) ==
    LET cost == IF r.cost_info # <<>> THEN r.cost_info[1].cost ELSE None
        data == review_data(Len(history) + 1, identifier, r.review_text, focus,
                            None, cost, now + 1)
    IN /\ Priced(r)
       /\ history' = save_review(history, identifier, r.review_text, focus,
                                 None, cost, now + 1)
       /\ UNCHANGED history_kind
       /\ now' = now + 2
       /\ ret' = [op |-> op, args |-> args, exit |-> 0, cause |-> "none", key |-> key,
                  trace |-> <<"backend">>
                            \o (IF r.tracked # <<>> THEN <<"ledger">> ELSE <<>>)
                            \o <<"history">>,
                  saved |-> data, val |-> data.id]

\* the command "alfred review", on store files that hold lists
Review ==
    /\ steps < MaxRuns
    /\ history_kind = "list" /\ cost_kind = "list"
    /\ \E file \in FileArgs, focus \in FocusChoices, k \in KeyArgs, show_cost \in BOOLEAN :
          LET env == k.env
              args == [filepath |-> file.path, exists |-> file.exists, focus |-> focus,
                       api_key |-> k.flag, env |-> env, show_cost |-> show_cost]
              api_key == api_key_option(k.flag, env)
              current_key == get_api_key(api_key, config_key, env)
          IN IF ~file.exists
             THEN Abort("review", args, 1, "file_not_found", NoKey, <<>>)
                  /\ UNCHANGED config_key
             ELSE IF focus \notin valid_focuses
             THEN Abort("review", args, 1, "invalid_focus", NoKey, <<>>)
                  /\ UNCHANGED config_key
             ELSE \E setup_key \in (IF current_key = NoKey THEN SetupChoices ELSE {NoKey}) :
                  IF current_key = NoKey /\ setup_key = NoKey
                  THEN Abort("review", args, 1, "no_key", NoKey, <<>>)
                       /\ UNCHANGED config_key
                  ELSE \* interactive_setup saved its key; api_key = setup_key
                       /\ config_key' = IF current_key = NoKey THEN setup_key ELSE config_key
                       /\ \E backend \in BackendOutcomes :
                            LET key == get_api_key(IF current_key = NoKey THEN setup_key
                                                   ELSE api_key, config_key', env)
                                r == review_code(file, focus, show_cost, backend, now)
                            IN IF r.raised
                               THEN Abort("review", args, 1,
                                          IF r.called THEN "backend" ELSE "read_file", key,
                                          IF r.called THEN <<"backend">> ELSE <<>>)
                               ELSE Saved("review", args, key, r, file.path, focus)
    /\ steps' = steps + 1
    /\ UNCHANGED <<procVars, balanceVars>>

\* variant: a diff is never taken to be blank
diff_is_blank_never(git) == FALSE

\* "not diff.strip()" on what get_git_diff returned from the working tree
diff_is_blank(git) == git = "empty"

\* the command "alfred review-git", on store files that hold lists.  git is
\* the state of the working tree for the selected diff: git fails on it, the
\* diff is empty, or there are changes.
ReviewGit ==
    /\ steps < MaxRuns
    /\ history_kind = "list" /\ cost_kind = "list"
    /\ \E mode \in GitModes, focus \in FocusChoices, k \in KeyArgs,
          show_cost \in BOOLEAN, force \in BOOLEAN, git \in GitOutcomes :
          LET args == [staged |-> mode.staged, since |-> mode.since, focus |-> focus,
                       api_key |-> k.flag, env |-> k.env, show_cost |-> show_cost,
                       force |-> force, tree |-> git]
              anthropic_key == get_api_key(api_key_option(k.flag, k.env), config_key, k.env)
              gate == check_before_review(150000, balance_file, cost_exists, cost_history)
          IN IF anthropic_key = NoKey
             THEN Abort("review_git", args, 1, "no_key", NoKey, <<>>)
             ELSE IF ~force /\ ~gate.proceed
             THEN Abort("review_git", args, 1, "insufficient_balance", anthropic_key, <<>>)
             ELSE \E proceed \in (IF ~force /\ gate.warning # "None"
                                  THEN BOOLEAN ELSE {TRUE}) :
                  IF ~proceed
                  THEN Abort("review_git", args, 0, "cancelled", anthropic_key, <<>>)
                  ELSE IF git = "fail"
                       THEN Abort("review_git", args, 1, "git", anthropic_key, <<>>)
                       ELSE IF diff_is_blank(git)
                       THEN Abort("review_git", args, 0, "no_changes", anthropic_key, <<>>)
                       ELSE \E backend \in BackendOutcomes :
                            LET r == review_git_diff(focus, show_cost, backend, now)
                            IN IF r.raised
                               THEN Abort("review_git", args, 1, "backend",
                                          anthropic_key, <<"backend">>)
                               ELSE Saved("review_git", args, anthropic_key, r,
                                          git_identifier(git_description(mode.staged,
                                                                        mode.since)),
                                          focus)
    /\ steps' = steps + 1
    /\ UNCHANGED <<procVars, configVars, balanceVars>>

\* the command "alfred review-pr", on store files that hold lists.
\* github is what the GitHub side does while the pull request is fetched
\* (parse_pr_url, the git remote lookup, get_pr, get_pr_info, get_pr_diff).
ReviewPr ==
    /\ steps < MaxRuns
    /\ history_kind = "list" /\ cost_kind = "list"
    /\ \E ref \in PrRefs, comment \in BOOLEAN, focus \in FocusChoices, k \in KeyArgs,
          show_cost \in BOOLEAN :
          LET args == [pr |-> ref, comment |-> comment, focus |-> focus,
                       api_key |-> k.flag, env |-> k.env, show_cost |-> show_cost]
              anthropic_key == get_api_key(api_key_option(k.flag, k.env), config_key, k.env)
          IN IF anthropic_key = NoKey
             THEN Abort("review_pr", args, 1, "no_key", NoKey, <<>>)
             ELSE \E is_logged_in \in BOOLEAN :
                  IF ~is_logged_in
                  THEN Abort("review_pr", args, 1, "not_logged_in", anthropic_key, <<>>)
                  ELSE IF ref = "other"
                  THEN Abort("review_pr", args, 1, "invalid_pr", anthropic_key, <<>>)
                  ELSE \E github \in {"fail", "ok"} :
                  IF github = "fail"
                  THEN Abort("review_pr", args, 1, "github", anthropic_key, <<>>)
                  ELSE \E backend \in BackendOutcomes :
                  IF ~backend.ok
                  THEN Abort("review_pr", args, 1, "backend", anthropic_key, <<"backend">>)
                  ELSE \E posted \in (IF comment THEN BOOLEAN ELSE {FALSE}) :
                       LET r == review_pr_diff(focus, show_cost, backend, now)
                       IN IF r.raised
                          THEN Abort("review_pr", args, 1, "backend",
                                     anthropic_key, <<"backend">>)
                          ELSE /\ Priced(r)
                               /\ now' = now + 1
                               /\ UNCHANGED historyVars
                               /\ ret' = [op |-> "review_pr", args |-> args, exit |-> 0,
                                          cause |-> IF comment /\ ~posted
                                                    THEN "post_pr_comment" ELSE "none",
                                          key |-> anthropic_key,
                                          trace |-> <<"backend">>
                                             \o (IF r.tracked # <<>> THEN <<"ledger">>
                                                 ELSE <<>>)
                                             \o (IF comment /\ posted THEN <<"comment">>
                                                 ELSE <<>>)]
    /\ steps' = steps + 1
    /\ UNCHANGED <<procVars, configVars, balanceVars>>

\* poll_for_token, line 79: the loop test "while time.time() < timeout";
\* when it fails the method returns the timeout error (line 114)
PollWhile ==
    /\ poll.pc = "while"
    /\ poll' = IF poll.clock < PollTimeout
               THEN [poll EXCEPT !.pc = "sleep"]
               ELSE [poll EXCEPT !.pc = "done", !.result = "timeout"]
    /\ UNCHANGED <<token_file, raceVars, configVars, now, steps, ret, historyVars,
                   ledgerVars, balanceVars>>

\* poll_for_token, line 80: time.sleep(interval)
PollSleep ==
    /\ poll.pc = "sleep"
    /\ poll' = [poll EXCEPT !.pc = "post", !.clock = poll.clock + poll.interval]
    /\ UNCHANGED <<token_file, raceVars, configVars, now, steps, ret, historyVars,
                   ledgerVars, balanceVars>>

\* poll_for_token, lines 82-112: the token request is sent, the reply comes
\* after some latency and is acted upon
PollPost ==
    /\ poll.pc = "post"
    /\ \E reply \in Replies, latency \in Latencies :
          LET sent == [poll EXCEPT !.posted_at = poll.clock,
                                   !.clock = poll.clock + latency,
                                   !.reply = reply]
          IN IF reply = "access_token"
             THEN /\ token_file' = <<token_data(sent.clock)>>
                  /\ poll' = [sent EXCEPT !.pc = "done", !.result = "success"]
             ELSE /\ UNCHANGED token_file
                  /\ poll' = IF reply = "slow_down"
                             THEN [sent EXCEPT !.pc = "while",
                                               !.interval = poll.interval + 5]
                             ELSE IF reply \in {"expired_token", "access_denied"}
                             THEN [sent EXCEPT !.pc = "done", !.result = reply]
                             ELSE [sent EXCEPT !.pc = "while"]
    /\ UNCHANGED <<raceVars, configVars, now, steps, ret, historyVars, ledgerVars,
                   balanceVars>>

\* invocation p is between its load of the store file and the end of its
\* write
Busy(p) == inv[p].pc \in {"loaded", "opened"}

\* save_review in invocation p, lines 47-66: the file is loaded and the new
\* record is built from what was loaded
SaveLoad(p) ==
    /\ inv[p].pc = "start" /\ inv[p].store = "history"
    /\ ~NotAList(history_kind)
    /\ \E inp \in ScoredInputs :
          LET loaded == LoadList(history_kind, history)
              data == review_data(Len(loaded) + 1, inp.filepath, inp.review_text,
                                  inp.focus, inp.score, inp.cost, now)
          IN inv' = [inv EXCEPT ![p] = [pc |-> "loaded", store |-> "history",
                                        loaded |-> loaded, data |-> <<data>>]]
    /\ overlapped' = (overlapped \/ \E q \in Procs \ {p} : Busy(q))
    /\ now' = now + 1
    /\ UNCHANGED <<flowVars, configVars, steps, ret, historyVars, ledgerVars, balanceVars>>

\* _save_history in invocation p, line 261: open(self.history_file, 'w')
\* empties the file
SaveOpen(p) ==
    /\ inv[p].pc = "loaded" /\ inv[p].store = "history"
    /\ history' = <<>>
    /\ history_kind' = "invalid"
    /\ inv' = [inv EXCEPT ![p].pc = "opened"]
    /\ UNCHANGED <<flowVars, overlapped, configVars, now, steps, ret, ledgerVars,
                   balanceVars>>

\* save_review in invocation p, lines 68-73 and 262: the list that was
\* loaded, with the new record appended and the cap applied, is dumped
SaveDump(p) ==
    /\ inv[p].pc = "opened" /\ inv[p].store = "history"
    /\ LET d == inv[p].data[1]
       IN history' = save_review(inv[p].loaded, d.filepath, d.review, d.focus,
                                 d.score, d.cost, d.timestamp)
    /\ history_kind' = "list"
    /\ inv' = [inv EXCEPT ![p].pc = "done"]
    /\ UNCHANGED <<flowVars, overlapped, configVars, now, steps, ret, ledgerVars,
                   balanceVars>>

\* track_review and _save_to_history in invocation p, cost_tracker.py lines
\* 47-55 and 120: the usage record is built and the ledger is loaded
TrackLoad(p) ==
    /\ inv[p].pc = "start" /\ inv[p].store = "ledger"
    /\ ~NotAList(cost_kind)
    /\ \E input_tokens \in InputTokenChoices :
          LET data == usage_data(input_tokens, 100, <<"a.py">>, now)
              loaded == _load_history(cost_exists, LoadList(cost_kind, cost_history))
          IN /\ inv' = [inv EXCEPT ![p] = [pc |-> "loaded", store |-> "ledger",
                                           loaded |-> loaded, data |-> <<data>>]]
             /\ priced' = Append(priced, data)
             /\ spent' = spent + data.cost
    /\ overlapped' = (overlapped \/ \E q \in Procs \ {p} : Busy(q))
    /\ now' = now + 1
    /\ UNCHANGED <<flowVars, configVars, steps, ret, historyVars, cost_exists,
                   cost_history, cost_kind, balanceVars>>

\* _save_to_history in invocation p, line 128: open(self.history_file, 'w')
\* creates or empties the file
TrackOpen(p) ==
    /\ inv[p].pc = "loaded" /\ inv[p].store = "ledger"
    /\ cost_exists' = TRUE
    /\ cost_history' = <<>>
    /\ cost_kind' = "invalid"
    /\ inv' = [inv EXCEPT ![p].pc = "opened"]
    /\ UNCHANGED <<flowVars, overlapped, configVars, now, steps, ret, historyVars,
                   priced, spent, balanceVars>>

\* _save_to_history in invocation p, lines 121-129: the list that was
\* loaded, with the record appended and the cap applied, is dumped
TrackDump(p) ==
    /\ inv[p].pc = "opened" /\ inv[p].store = "ledger"
    /\ cost_history' = _save_to_history(TRUE, inv[p].loaded, inv[p].data[1])
    /\ cost_kind' = "list"
    /\ inv' = [inv EXCEPT ![p].pc = "done"]
    /\ UNCHANGED <<flowVars, overlapped, configVars, now, steps, ret, historyVars,
                   cost_exists, priced, spent, balanceVars>>

NextHistory == SaveReview \/ DeleteReview \/ ClearAll

NextBalance == TrackReview \/ SaveBalance \/ CheckBeforeReview \/ GetDetailedStatus

NextScore == ExtractScore \/ SaveScored

NextQuery == SaveReview \/ GetRecent \/ SearchReviews \/ GetByFile \/ GetStats

NextCorrupt ==
    \/ SaveReview \/ GetRecent \/ SearchReviews \/ GetByFile \/ GetStats
    \/ TrackReview \/ GetTotalUsage

NextPipeline == Review \/ ReviewGit \/ ReviewPr \/ GetApiKey

NextPoll == PollWhile \/ PollSleep \/ PollPost

NextRace ==
    \E p \in Procs :
       \/ SaveLoad(p) \/ SaveOpen(p) \/ SaveDump(p)
       \/ TrackLoad(p) \/ TrackOpen(p) \/ TrackDump(p)

Next ==
    \/ NextHistory \/ NextBalance \/ NextScore \/ NextQuery \/ NextCorrupt \/ NextPipeline
    \/ NextPoll \/ NextRace

Spec == Init /\ [][Next]_vars

SpecHistory == InitHistory /\ [][NextHistory]_vars

SpecBalance == InitBalance /\ [][NextBalance]_vars

SpecScore == InitScore /\ [][NextScore]_vars

SpecQuery == InitQuery /\ [][NextQuery]_vars

SpecCorrupt == InitCorrupt /\ [][NextCorrupt]_vars

SpecPipeline == InitPipeline /\ [][NextPipeline]_vars

SpecPoll == InitPoll /\ [][NextPoll]_vars

SpecRace == InitRace /\ [][NextRace]_vars

\* the interpreter keeps running the one thread that executes poll_for_token
SpecPollFair == SpecPoll /\ WF_vars(NextPoll)

----------------------------------------------------------------------------
(* Properties *)

\* C1: after save_review, get_review with the returned id returns the record
\* that was just saved: same filepath, review text, focus, score and cost.
C1_RoundTrip ==
    ret.op = "save_review" =>
        LET got == get_review(history, ret.val)
        IN /\ got # <<>>
           /\ got[1].filepath = ret.saved.filepath
           /\ got[1].review = ret.saved.review
           /\ got[1].focus = ret.saved.focus
           /\ got[1].score = ret.saved.score
           /\ got[1].cost = ret.saved.cost

\* C2: the history store never holds more than 100 records, and a
\* save_review into a store of 100 removes exactly the oldest record and
\* keeps the other 99, in order, followed by the new one.
C2_HistoryCapped ==
    /\ [](Len(history) <= max_reviews)
    /\ [][ (ret'.op = "save_review" /\ Len(history) = max_reviews)
           => history' = Append(Tail(history), ret'.saved) ]_vars

C2_Witness ==
    /\ ret.op = "save_review"
    /\ Len(history) = max_reviews
    /\ history[1].id = 2
    /\ history[max_reviews] = ret.saved

\* C3: after N track_review calls on an empty ledger, get_total_usage
\* reports min(N, 1000) reviews and the ledger is the min(N, 1000) most
\* recently priced records, in the order they were priced.
C3_LedgerMostRecent ==
    LET N == Len(priced)
    IN /\ get_total_usage(cost_exists, cost_history).total_reviews = Min(N, 1000)
       /\ Len(_load_history(cost_exists, cost_history)) = Min(N, 1000)
       /\ \A i \in 1..Min(N, 1000) :
             _load_history(cost_exists, cost_history)[i] = priced[N - Min(N, 1000) + i]

C3_Witness ==
    /\ ret.op = "track_review"
    /\ Len(priced) > 1000
    /\ cost_history[Len(cost_history)] = ret.saved

\* C4: once a snapshot is saved, load_balance estimates the balance as the
\* snapshot balance minus the cost priced since, floored at zero.
C4_EstimateAfterSpending ==
    balance_file # <<>> =>
        LET got == load_balance(balance_file, cost_exists, cost_history)
        IN /\ got # <<>>
           /\ got[1].balance = Max(0, balance_file[1].balance - spent)

\* C5: load_balance right after save_balance(b) returns exactly b.
C5_SnapshotIdempotent ==
    ret.op = "save_balance" =>
        LET got == load_balance(balance_file, cost_exists, cost_history)
        IN /\ got # <<>>
           /\ got[1].balance = ret.balance

C5_Witness ==
    /\ ret.op = "save_balance"
    /\ ret.balance > 0
    /\ get_total_usage(cost_exists, cost_history).total_cost > 0
    /\ load_balance(balance_file, cost_exists, cost_history)[1].balance = ret.balance

\* C6: with no snapshot, check_before_review returns (True, None) whatever
\* the estimated cost and the ledger, and the status says that no balance is
\* tracked instead of giving a balance.
C6_NoSnapshotProceeds ==
    balance_file = <<>> =>
        /\ \A c \in CostChoices :
              check_before_review(c, balance_file, cost_exists, cost_history)
                  = [proceed |-> TRUE, warning |-> "None"]
        /\ ret.op = "check_before_review"
              => ret.val = [proceed |-> TRUE, warning |-> "None"]
        /\ ~get_detailed_status(balance_file, cost_exists, cost_history).has_balance
        /\ "balance" \notin DOMAIN get_detailed_status(balance_file, cost_exists, cost_history)

C6_Witness ==
    /\ balance_file = <<>>
    /\ ret.op = "check_before_review"
    /\ ret.estimated_cost > 0
    /\ Len(cost_history) > 0
    /\ ret.val.proceed

\* C7: with a snapshot, check_before_review(cost) refuses exactly when the
\* estimated balance is below cost; otherwise it proceeds, with a message
\* when the balance is below 5 dollars and without one from 5 dollars on.
\* 0.50 against 0.15 proceeds with a message, 0.10 against 0.15 is refused
\* with a message.
C7_Gate ==
    (ret.op = "check_before_review" /\ balance_file # <<>>) =>
        LET est == load_balance(balance_file, cost_exists, cost_history)[1].balance
            c == ret.estimated_cost
        IN /\ ret.val.proceed <=> ~(est < c)
           /\ est < c => ret.val.warning = "insufficient"
           /\ (est >= c /\ est < 5000000) => ret.val.warning = "advisory"
           /\ (est >= c /\ est >= 5000000) => ret.val.warning = "None"
           /\ (est = 500000 /\ c = 150000)
                 => (ret.val.proceed /\ ret.val.warning # "None")
           /\ (est = 100000 /\ c = 150000)
                 => (~ret.val.proceed /\ ret.val.warning # "None")

C7_Witness ==
    /\ ret.op = "check_before_review"
    /\ balance_file # <<>>
    /\ load_balance(balance_file, cost_exists, cost_history)[1].balance = 100000
    /\ ret.estimated_cost = 150000
    /\ ~ret.val.proceed

\* C8: a tracked balance below 1 dollar has status low, from 1 dollar and
\* below 5 dollars warning, from 5 dollars on ok; should_warn holds exactly
\* for low and warning.
C8_StatusThresholds ==
    (ret.op = "get_detailed_status" /\ balance_file # <<>>) =>
        LET b == load_balance(balance_file, cost_exists, cost_history)[1].balance
        IN /\ ret.val.has_balance
           /\ ret.val.balance = b
           /\ b < 1000000 => ret.val.status = "low"
           /\ (1000000 <= b /\ b < 5000000) => ret.val.status = "warning"
           /\ b >= 5000000 => ret.val.status = "ok"
           /\ ret.val.should_warn <=> ret.val.status \in {"low", "warning"}

C8_Witness ==
    /\ ret.op = "get_detailed_status"
    /\ balance_file # <<>>
    /\ ret.val.balance = 1000000
    /\ ret.val.status = "warning"
    /\ ret.val.should_warn

\* C9: track_review returns, and appends to the ledger, a record costing
\* 3 micro-dollars per input token plus 15 per output token, whose
\* total_tokens is the sum of the two token counts.
C9_Pricing ==
    ret.op = "track_review" =>
        LET last == cost_history[Len(cost_history)]
        IN /\ ret.val.cost = 3 * ret.input_tokens + 15 * ret.output_tokens
           /\ ret.val.total_tokens = ret.input_tokens + ret.output_tokens
           /\ last.cost = 3 * ret.input_tokens + 15 * ret.output_tokens
           /\ last.total_tokens = ret.input_tokens + ret.output_tokens
           /\ last.input_tokens = ret.input_tokens
           /\ last.output_tokens = ret.output_tokens

C9_Witness ==
    /\ ret.op = "track_review"
    /\ ret.input_tokens = 1000
    /\ ret.output_tokens = 100
    /\ ret.val.cost = 4500
    /\ cost_history[Len(cost_history)].cost = 4500

\* C10: score extraction returns the number of the highest-priority pattern
\* occurring anywhere in the text (Overall Score: N/10, then Score: N/10,
\* then Rating: N/10, then a bare N/10), whatever the case of the letters
\* and wherever a lower-priority pattern occurs, and None when no pattern
\* occurs; "Score: 4/10" followed by a bare "9/10" gives 4.
SameIgnoringCase(a, b) ==
    \/ a = b
    \/ {a, b} \subseteq {"Overall ", "OVERALL ", "overall "}
    \/ {a, b} \subseteq {"Score:", "SCORE:", "score:"}
    \/ {a, b} \subseteq {"Rating:", "RATING:", "rating:"}
    \/ {a, b} \subseteq {"SQL", "sql"}
    \/ {a, b} \subseteq {"A.PY", "a.py"}
    \/ {a, b} \subseteq {"Security", "security"}

PatternLiterals ==
    << <<"Overall ", "Score:">>, <<"Score:">>, <<"Rating:">>, <<>> >>

\* the literal of pattern number p stands at position i, in any case
LiteralOccurs(text, i, p) ==
    /\ i + Len(PatternLiterals[p]) - 1 <= Len(text)
    /\ \A k \in 1..Len(PatternLiterals[p]) :
          SameIgnoringCase(text[i + k - 1], PatternLiterals[p][k])

\* after the literal of pattern number p at position i come blanks up to d
\* (none for the bare pattern), one or more digits from d on, and "/10" at e
NumberFollows(text, i, p, d, e) ==
    /\ p = 4 => d = i
    /\ \A k \in (i + Len(PatternLiterals[p]))..(d - 1) : text[k] = " "
    /\ \A k \in d..(e - 1) : text[k] \in Digits
    /\ text[e] = "/10"

\* pattern number p occurs at position i
Occurs(text, i, p) ==
    /\ LiteralOccurs(text, i, p)
    /\ \E d \in (i + Len(PatternLiterals[p]))..(Len(text) - 1) :
          \E e \in (d + 1)..Len(text) : NumberFollows(text, i, p, d, e)

\* pattern number p occurs at position i with number n
OccursAt(text, i, p, n) ==
    /\ LiteralOccurs(text, i, p)
    /\ \E d \in (i + Len(PatternLiterals[p]))..(Len(text) - 1) :
          \E e \in (d + 1)..Len(text) :
              /\ NumberFollows(text, i, p, d, e)
              /\ n = IntOf(text, d, e - 1)

\* pattern number p occurs somewhere in the text
PatternOccurs(text, p) ==
    \E i \in 1..Len(text) : Occurs(text, i, p)

C10_ScorePriority ==
    ret.op = "_extract_score" =>
        LET text == ret.review_text
            occurs == [p \in 1..4 |-> PatternOccurs(text, p)]
        IN /\ (\A p \in 1..4 : ~occurs[p]) => ret.val = None
           /\ \A p \in 1..4 :
                 (occurs[p] /\ \A q \in 1..(p - 1) : ~occurs[q])
                 => \E i \in 1..Len(text) :
                       /\ OccursAt(text, i, p, ret.val)
                       /\ \A j \in 1..(i - 1) : ~Occurs(text, j, p)
           /\ text = <<"Score:", "4", "/10", "9", "/10">> => ret.val = 4

C10_Witness ==
    /\ ret.op = "_extract_score"
    /\ ret.review_text = <<"Score:", "4", "/10", "9", "/10">>
    /\ ret.val = 4

\* the records of h at the indices idx, the highest index first
NewestFirst(h, idx) ==
    [k \in 1..Cardinality(idx) |->
        h[CHOOSE j \in idx : Cardinality({m \in idx : m >= j}) = k]]

\* C17: for every limit >= 0 and every store of n records, get_recent(limit)
\* returns exactly the min(limit, n) most recently saved records, newest
\* first.
C17_GetRecent ==
    (ret.op = "get_recent" /\ ret.limit >= 0) =>
        /\ Len(ret.val) = Min(ret.limit, Len(history))
        /\ \A k \in 1..Len(ret.val) : ret.val[k] = history[Len(history) + 1 - k]

\* the query occurs in the text at some position, ignoring case
OccursIgnoringCase(text, query) ==
    \E i \in 0..(Len(text) - Len(query)) :
        \A k \in 1..Len(query) : SameIgnoringCase(text[i + k], query[k])

\* C18: search(query) returns, newest first, exactly the stored records in
\* which the query occurs as a case-insensitive substring of the review
\* text, the filename or the focus; searching "sql" finds a record whose
\* review text contains "SQL injection".
C18_Search ==
    ret.op = "search" =>
        LET idx == {i \in 1..Len(history) :
                       \/ OccursIgnoringCase(history[i].review, ret.query)
                       \/ OccursIgnoringCase(<<history[i].filename>>, ret.query)
                       \/ OccursIgnoringCase(<<history[i].focus>>, ret.query)}
        IN /\ ret.val = NewestFirst(history, idx)
           /\ ret.query = <<"sql">> =>
                 \A i \in 1..Len(history) :
                    history[i].review = <<"SQL", " ", "injection">> =>
                       \E k \in 1..Len(ret.val) : ret.val[k] = history[i]

C18_Witness ==
    /\ ret.op = "search"
    /\ ret.query = <<"sql">>
    /\ Len(history) = 3
    /\ Len(ret.val) = 2
    /\ ret.val[1] = history[3]
    /\ ret.val[2] = history[1]
    /\ ret.val[1].review = <<"SQL", " ", "injection">>

\* C19 as stated: get_by_file(filepath) returns, newest first, exactly the
\* stored records whose filename equals the argument or whose full path
\* equals the argument, and no other record.
C19_GetByFileExact ==
    ret.op = "get_by_file" =>
        LET idx == {i \in 1..Len(history) :
                       \/ <<history[i].filename>> = ret.filepath
                       \/ history[i].filepath = ret.filepath}
        IN ret.val = NewestFirst(history, idx)

\* C19: get_by_file(filepath) returns, newest first, exactly the stored
\* records whose filename equals the last component of the argument or
\* whose full path equals the argument.
C19_GetByFile ==
    ret.op = "get_by_file" =>
        LET idx == {i \in 1..Len(history) :
                       \/ history[i].filename = ret.filepath[Len(ret.filepath)]
                       \/ history[i].filepath = ret.filepath}
        IN ret.val = NewestFirst(history, idx)

C19_Witness ==
    /\ ret.op = "get_by_file"
    /\ ret.filepath = <<"src", "a.py">>
    /\ Len(history) = 3
    /\ Len(ret.val) = 2
    /\ ret.val[1] = history[3]
    /\ ret.val[1].filepath = <<"a.py">>
    /\ ret.val[2] = history[1]
    /\ ret.val[2].filepath = <<"src", "a.py">>
    /\ history[2].filename = "b.py"

\* the sum of the counts of a breakdown
RECURSIVE SumCounts(_, _)
SumCounts(f, S) ==
    IF S = {} THEN 0
    ELSE LET x == CHOOSE y \in S : TRUE
         IN f[x] + SumCounts(f, S \ {x})

\* C20: get_stats on a non-empty store reports total_reviews equal to the
\* number of stored records, files_reviewed between 1 and total_reviews and
\* a focus_breakdown whose counts sum to total_reviews; after three saves
\* with focus security into an empty store it reports total_reviews = 3,
\* files_reviewed <= 3 and focus_breakdown = {security: 3}.
C20_Stats ==
    (ret.op = "get_stats" /\ history # <<>>) =>
        /\ ret.val.total_reviews = Len(history)
        /\ ret.val.files_reviewed >= 1
        /\ ret.val.files_reviewed <= ret.val.total_reviews
        /\ SumCounts(ret.val.focus_breakdown, DOMAIN ret.val.focus_breakdown)
              = ret.val.total_reviews
        /\ (Len(history) = 3 /\ \A i \in 1..3 : history[i].focus = "security") =>
              /\ ret.val.total_reviews = 3
              /\ ret.val.files_reviewed <= 3
              /\ ret.val.focus_breakdown = [f \in {"security"} |-> 3]

C20_Witness ==
    /\ ret.op = "get_stats"
    /\ Len(history) = 3
    /\ \A i \in 1..3 : history[i].focus = "security"
    /\ ret.val.total_reviews = 3
    /\ ret.val.files_reviewed = 2
    /\ ret.val.focus_breakdown = [f \in {"security"} |-> 3]

\* C15: when the ledger file or the history file holds content that is not
\* a well-formed list of records, every query and every append on that
\* store raises no error and behaves exactly as on an empty store: a query
\* returns what it returns on an empty store, an append leaves the store
\* holding the new record alone.
C15_CorruptAsEmpty ==
    (/\ ret.op \in {"save_review", "get_recent", "search", "get_by_file", "get_stats",
                     "track_review", "get_total_usage"}
     /\ ret.found # "list") =>
        /\ ~ret.raised
        /\ CASE ret.op = "save_review" -> ret.val = 1 /\ history = <<ret.saved>>
             [] ret.op = "get_recent" -> ret.val = get_recent(<<>>, ret.limit)
             [] ret.op = "search" -> ret.val = search(<<>>, ret.query)
             [] ret.op = "get_by_file" -> ret.val = get_by_file(<<>>, ret.filepath)
             [] ret.op = "get_stats" -> ret.val = get_stats(<<>>)
             [] ret.op = "track_review" -> cost_history = <<ret.saved>>
             [] ret.op = "get_total_usage" -> ret.val = get_total_usage(FALSE, <<>>)

ReviewOps == {"review", "review_git", "review_pr"}

\* a review command ran to its end: the backend answered and the command
\* left with status 0
Successful(r) == r.op \in ReviewOps /\ r.exit = 0 /\ r.trace # <<>>

\* the position of event e in a trace (0 when it is not there)
EventAt(trace, e) ==
    IF \E i \in 1..Len(trace) : trace[i] = e
    THEN CHOOSE i \in 1..Len(trace) : trace[i] = e
    ELSE 0

\* C11: every successful run of a review variant (file, git diff, pull
\* request) appends exactly one ReviewRecord to the history store, and the
\* record carries the source identifier of the variant: the path of the
\* file, or a synthetic identifier that starts with git, or one for the
\* pull request.
C11_OneRecordPerRun ==
    [][ Successful(ret') =>
          /\ Len(history') = Len(history) + 1
          /\ SubSeq(history', 1, Len(history)) = history
          /\ LET filepath == history'[Len(history')].filepath
             IN CASE ret'.op = "review" -> filepath = ret'.args.filepath
                  [] ret'.op = "review_git" ->
                        filepath = git_identifier(git_description(ret'.args.staged,
                                                                  ret'.args.since))
                  [] ret'.op = "review_pr" -> filepath # <<>> ]_vars

\* C12: every successful backend call made by a review appends exactly one
\* UsageRecord to the ledger, whatever the options of the command, and the
\* append comes before the ReviewRecord is saved.
C12_OneUsagePerCall ==
    [][ Successful(ret') =>
          /\ Len(cost_history') = Len(cost_history) + 1
          /\ SubSeq(cost_history', 1, Len(cost_history)) = cost_history
          /\ EventAt(ret'.trace, "ledger") > EventAt(ret'.trace, "backend")
          /\ EventAt(ret'.trace, "history") # 0 =>
                EventAt(ret'.trace, "ledger") < EventAt(ret'.trace, "history") ]_vars

\* C13: when the backend call, a GitHub API call or the git command fails
\* during a review command, the command exits non-zero and the ledger and
\* the history store are as they were before the command.
C13_FailureLeavesStores ==
    [][ (ret'.op \in ReviewOps
         /\ ret'.cause \in {"backend", "github", "post_pr_comment", "git"}) =>
          /\ ret'.exit # 0
          /\ history' = history
          /\ cost_history' = cost_history
          /\ cost_exists' = cost_exists ]_vars

\* C14: in every review command a focus outside the five valid values, and
\* in the file review a path that does not exist, makes the command exit
\* non-zero before the backend is invoked and before anything is appended
\* to the ledger or the history store.
C14_InputErrors ==
    [][ (ret'.op \in ReviewOps
         /\ \/ ret'.args.focus \notin valid_focuses
            \/ (ret'.op = "review" /\ ~ret'.args.exists)) =>
          /\ ret'.exit # 0
          /\ ret'.trace = <<>>
          /\ history' = history
          /\ cost_history' = cost_history
          /\ cost_exists' = cost_exists ]_vars

\* the first key of the sequence that is present, NoKey when none is
FirstPresent(keys) ==
    LET present == {i \in 1..Len(keys) : keys[i] # NoKey}
    IN IF present = {} THEN NoKey
       ELSE keys[CHOOSE i \in present : \A j \in present : i <= j]

\* C16: credential resolution returns the first present of the explicit
\* value, the key in the configuration file and ANTHROPIC_API_KEY, and
\* absent when there is none; a review command started without --api-key,
\* with a key in the configuration file and one in the environment, uses
\* the key of the configuration file; resolution changes no persisted state.
C16_KeyOrder ==
    [][ /\ ret'.op = "get_api_key" =>
             /\ ret'.val = FirstPresent(<<ret'.cli_key, config_key, ret'.env>>)
             /\ UNCHANGED <<configVars, historyVars, ledgerVars, balanceVars>>
        /\ (ret'.op \in ReviewOps /\ ret'.key # NoKey) =>
             LET first == FirstPresent(<<ret'.args.api_key, config_key, ret'.args.env>>)
             IN first # NoKey => (ret'.key = first /\ UNCHANGED configVars) ]_vars

\* b is a with the record at index i taken out: the records before i keep
\* their places, the records after i move up by one
RemovedAt(a, b, i) ==
    /\ Len(b) = Len(a) - 1
    /\ \A j \in 1..Len(b) : b[j] = IF j < i THEN a[j] ELSE a[j + 1]

\* C21: delete_review(id) returns true exactly when a record with that id is
\* stored, and then one record with that id is removed and every other
\* record is unchanged and in order; when it returns false the store is
\* unchanged; clear_all returns the number of records stored before the
\* call and leaves the store empty.
C21_Deletion ==
    [][ /\ ret'.op = "delete_review" =>
             /\ ret'.val = (\E i \in 1..Len(history) : history[i].id = ret'.review_id)
             /\ ret'.val =>
                   \E i \in 1..Len(history) :
                      /\ history[i].id = ret'.review_id
                      /\ RemovedAt(history, history', i)
             /\ ~ret'.val => history' = history
        /\ ret'.op = "clear_all" =>
             /\ ret'.val = Len(history)
             /\ history' = <<>> ]_vars

\* a delete_review that found its record in the middle of a store of several
\* records, and a clear_all of a non-empty store, have both been seen
C21_Witness ==
    /\ ret.op = "delete_review"
    /\ ret.val
    /\ ret.review_id = 2
    /\ Len(history) = max_reviews - 1
    /\ history[1].id = 1
    /\ history[2].id = 3

\* a clear_all of a full store
C21_WitnessClear ==
    /\ ret.op = "clear_all"
    /\ ret.val = max_reviews
    /\ history = <<>>

\* two records of h carry the same id
SharedId(h) == \E i, j \in 1..Len(h) : i < j /\ h[i].id = h[j].id

\* C24: the id of a new record is the number of records stored before the
\* save plus one; hence a save into a store that already holds a record with
\* that id (as a delete_review leaves it) leaves two records sharing an id.
C24_NewId ==
    [][ (ret'.op = "save_review" /\ ~ret'.raised) =>
          /\ history' # <<>>
          /\ history'[Len(history')].id = Len(history) + 1
          /\ ret'.val = Len(history) + 1
          /\ ( /\ Len(history) < max_reviews
               /\ \E i \in 1..Len(history) : history[i].id = Len(history) + 1 )
             => SharedId(history') ]_vars

\* delete_review(1) on a store of 99 records followed by a save_review: the
\* new record gets id 99, which the record saved 99th still carries
C24_Witness ==
    /\ ret.op = "save_review"
    /\ ~ret.raised
    /\ Len(history) = max_reviews - 1
    /\ history[1].id = 2
    /\ history[max_reviews - 2].id = max_reviews - 1
    /\ history[max_reviews - 1].id = max_reviews - 1

\* C28: save_review never modifies or reorders a stored record: the store
\* after the save is the previous store, minus the oldest records dropped by
\* the cap, followed by the new record, every surviving record unchanged.
C28_SaveFrame ==
    [][ (ret'.op = "save_review" /\ ~ret'.raised) =>
          LET n == Len(history)
              m == Len(history')
              dropped == n + 1 - m
          IN /\ m = Min(n + 1, max_reviews)
             /\ \A j \in 1..(m - 1) : history'[j] = history[j + dropped]
             /\ history'[m].filepath = ret'.args.filepath
             /\ history'[m].review = ret'.args.review_text
             /\ history'[m].timestamp = now ]_vars

\* a save into a store of 99 records: nothing is dropped, the 99 records
\* keep their places and the new record is the 100th
C28_Witness ==
    /\ ret.op = "save_review"
    /\ ~ret.raised
    /\ Len(history) = max_reviews
    /\ history[1] = HistoryAfter(1)[1]
    /\ history[max_reviews - 1] = HistoryAfter(max_reviews - 1)[max_reviews - 1]
    /\ history[max_reviews].timestamp = now - 1

\* C30: in a run of save_review calls with no delete_review and no
\* clear_all, of any length, the ids of the stored records are pairwise
\* distinct, so that get_review(id) identifies at most one stored record.
C30_DistinctIds ==
    \A i, j \in 1..Len(history) : history[i].id = history[j].id => i = j

\* C26: every record in the history store has a score that is either absent
\* or an integer between 0 and 10, for every review text from which the
\* score is auto-extracted.
C26_ScoreRange ==
    \A i \in 1..Len(history) :
       history[i].score = None \/ history[i].score \in 0..10

\* C27: get_stats reports avg_score as the mean of the scores of exactly
\* the stored records that have a score (a present score of 0 counts as
\* well), and total_cost as the sum of the costs of exactly the records
\* that have a cost.
C27_Averages ==
    (ret.op = "get_stats" /\ ~ret.raised) =>
       LET hasScore(r) == r.score # None
           hasCost(r) == r.cost # None
           scored == SelectSeq(history, hasScore)
           costed == SelectSeq(history, hasCost)
           scores == [i \in 1..Len(scored) |-> scored[i].score]
           costs == [i \in 1..Len(costed) |-> costed[i].cost]
       IN /\ scores # <<>> =>
               ret.val.avg_score.num * Len(scores)
                  = SumSeq(scores, 1, Len(scores)) * ret.val.avg_score.den
          /\ ret.val.total_cost = SumSeq(costs, 1, Len(costs))

\* the estimated cost review_git passes to check_before_review: $0.15
GitReviewEstimate == 150000

\* a balance snapshot exists and the estimated balance is below the
\* estimated cost of a git-diff review
ShortBalance ==
    LET status == get_detailed_status(balance_file, cost_exists, cost_history)
    IN status.has_balance /\ status.balance < GitReviewEstimate

\* C25: a git-diff review started without --force while a snapshot exists
\* and the estimated balance is below 0.15 exits non-zero before the diff is
\* taken and before the backend is invoked, and appends nothing to the
\* ledger or the history; a review is stopped for its balance in no other
\* case, in particular not by a low or warning status with enough balance.
C25_BalanceGate ==
    [][ ret'.op = "review_git" =>
          /\ (~ret'.args.force /\ ShortBalance) =>
                /\ ret'.exit # 0
                /\ ret'.cause \in {"no_key", "insufficient_balance"}
                /\ ret'.key # NoKey => ret'.cause = "insufficient_balance"
                /\ ret'.trace = <<>>
                /\ UNCHANGED <<history, cost_exists, cost_history>>
          /\ ret'.cause = "insufficient_balance" =>
                (~ret'.args.force /\ ShortBalance) ]_vars

\* a review-git run with a key, without --force, stopped on a snapshot of
\* $0.10
C25_Witness ==
    /\ ret.op = "review_git"
    /\ ~ret.args.force
    /\ ret.key # NoKey
    /\ ret.cause = "insufficient_balance"
    /\ ret.exit = 1
    /\ ShortBalance
    /\ history = <<>>

\* a review-git run without --force on a snapshot of $0.50 (status low,
\* balance sufficient) that went through to the saved record
C25_WitnessLow ==
    /\ ret.op = "review_git"
    /\ ~ret.args.force
    /\ ret.cause = "none"
    /\ balance_file # <<>>
    /\ get_detailed_status(balance_file, FALSE, <<>>).status = "low"
    /\ Len(history) = 1

\* an empty diff ended the run as a no-op: the backend was not invoked and
\* nothing was appended to the ledger or to the history store
NoOp ==
    /\ ret'.trace = <<>>
    /\ UNCHANGED <<history, cost_exists, cost_history>>

\* C22 as stated: in a git-diff review with a credential, whenever the
\* selected diff is empty the command ends as a no-op with exit code 0,
\* whatever the state of the balance snapshot.
C22_EmptyDiffAlways ==
    [][ ( /\ ret'.op = "review_git"
          /\ ret'.key # NoKey
          /\ ret'.args.tree = "empty" )
        => (NoOp /\ ret'.exit = 0) ]_vars

\* C22: in a git-diff review with a credential, whenever the selected diff
\* is empty the command ends as a no-op; its exit code is 0 unless the run
\* was started without --force on a snapshot whose estimated balance is
\* below 0.15, in which case the balance check ends it with exit code 1
\* before the diff is taken.
C22_EmptyDiff ==
    [][ ( /\ ret'.op = "review_git"
          /\ ret'.key # NoKey
          /\ ret'.args.tree = "empty" )
        => /\ NoOp
           /\ IF ~ret'.args.force /\ ShortBalance
              THEN ret'.exit = 1 /\ ret'.cause = "insufficient_balance"
              ELSE ret'.exit = 0 /\ ret'.cause \in {"no_changes", "cancelled"} ]_vars

\* a review-git run with a credential on a tree with an empty diff, past
\* the balance check on a snapshot of $2.00, that ended with "no changes"
C22_Witness ==
    /\ ret.op = "review_git"
    /\ ret.key # NoKey
    /\ ret.args.tree = "empty"
    /\ ~ret.args.force
    /\ ret.cause = "no_changes"
    /\ ret.exit = 0
    /\ balance_file # <<>>
    /\ history = <<>>

\* what poll_for_token returns is what the claim says of the last reply:
\* success exactly on a reply with an access token, with the token in the
\* token file; the error on access_denied or expired_token; timeout only
\* when the deadline has passed; a slow_down raised the interval by 5
PollOutcome ==
    /\ poll.pc = "done" =>
          /\ (poll.result = "success") = (poll.reply = "access_token")
          /\ poll.result = "success" => token_file # <<>>
          /\ poll.reply \in {"expired_token", "access_denied"} => poll.result = poll.reply
          /\ poll.result = "timeout" => poll.clock >= PollTimeout
    /\ poll.pc # "done" => token_file = <<>>
    /\ poll.interval % 5 = 0

\* C29: the device-flow poll returns success exactly when a reply carried an
\* access token (then persisted), failure on access_denied or expired_token,
\* keeps polling on authorization_pending and slow_down, returns timeout
\* once 15 minutes have elapsed, and sends no token request after that
\* deadline.
C29_DeviceFlow ==
    /\ PollOutcome
    /\ poll.posted_at # None => poll.posted_at <= PollTimeout

\* for every sequence of replies the poll returns
C29_Terminates == <>(poll.pc = "done")

\* the file both invocations append to, as a reader finds it
RacedFile ==
    IF inv[1].store = "history" THEN LoadList(history_kind, history)
    ELSE _load_history(cost_exists, LoadList(cost_kind, cost_history))

\* the record invocation p appended is in the file
Kept(p) == \E i \in 1..Len(RacedFile) : RacedFile[i] = inv[p].data[1]

BothDone == inv # <<>> /\ \A p \in Procs : inv[p].pc = "done"

\* C23: when two invocations run strictly one after the other, the file
\* holds both appended records once both have completed (the records of two
\* interleaved invocations need not both be there: the state C23_Witness
\* describes is reachable).
C23_Sequential ==
    (BothDone /\ ~overlapped) => (Kept(1) /\ Kept(2))

\* both invocations interleaved their load and write and completed, and the
\* file holds the record of one of them only
C23_Witness ==
    /\ BothDone
    /\ overlapped
    /\ Kept(1) # Kept(2)

====
